---- MODULE Spec2Model ----
(***************************************************************************)
(* RedCross: Doppler cross-correlation (class CCF) and the Kp-Vsys mapper  *)
(* (class KpV) of src/redcross/cross_correlation.py.                       *)
(*                                                                         *)
(* Floating-point values are modelled as exact rationals <<n, d>> in       *)
(* lowest terms with d >= 0.  d = 0 encodes the IEEE specials that numpy   *)
(* produces on a division by zero: <<1,0>> = +inf, <<-1,0>> = -inf and     *)
(* <<0,0>> = nan.  Rounding is not modelled.                               *)
(***************************************************************************)
EXTENDS Integers, Sequences, FiniteSets, TLC

Abs(x) == IF x < 0 THEN -x ELSE x

Sign(x) == IF x > 0 THEN 1 ELSE IF x < 0 THEN -1 ELSE 0

RECURSIVE Gcd(_, _)
Gcd(a, b) == IF b = 0 THEN a ELSE Gcd(b, a % b)

\* the rational n/d in canonical form
R(n, d) ==
  IF d = 0 THEN <<Sign(n), 0>>
  ELSE LET g == Gcd(Abs(n), Abs(d))
           s == Sign(d)
       IN  <<(s * n) \div g, (s * d) \div g>>

NaN == <<0, 0>>

Zero == <<0, 1>>

IsNan(a) == a = NaN

IsFinite(a) == a[2] > 0

RNeg(a) == <<-a[1], a[2]>>

RAdd(a, b) ==
  IF IsNan(a) \/ IsNan(b) THEN NaN
  ELSE IF a[2] = 0 /\ b[2] = 0 THEN (IF a[1] = b[1] THEN a ELSE NaN)
  ELSE IF a[2] = 0 THEN a
  ELSE IF b[2] = 0 THEN b
  ELSE R(a[1] * b[2] + b[1] * a[2], a[2] * b[2])

RSub(a, b) == RAdd(a, RNeg(b))

RMul(a, b) == R(a[1] * b[1], a[2] * b[2])

\* 1/b; 1/0 = +inf as for numpy's positive zero
RInv(b) ==
  IF IsNan(b) THEN NaN
  ELSE IF b[2] = 0 THEN Zero
  ELSE IF b[1] = 0 THEN <<1, 0>>
  ELSE R(b[2], b[1])

RDiv(a, b) == RMul(a, RInv(b))

\* a < b; every comparison with nan is false
RLt(a, b) ==
  /\ ~IsNan(a)
  /\ ~IsNan(b)
  /\ IF a[2] = 0 /\ b[2] = 0 THEN a[1] < b[1]
     ELSE a[1] * b[2] < b[1] * a[2]

\* a == b as numpy compares: nan equals nothing
REq(a, b) == ~IsNan(a) /\ a = b

RLe(a, b) == RLt(a, b) \/ REq(a, b)

RECURSIVE RSumTo(_, _)
RSumTo(s, n) == IF n = 0 THEN Zero ELSE RAdd(RSumTo(s, n - 1), s[n])

RSum(s) == RSumTo(s, Len(s))

\* np.min / np.max of a non-empty sequence: nan if any entry is nan
RMin(s) ==
  IF \E i \in DOMAIN s : IsNan(s[i]) THEN NaN
  ELSE s[CHOOSE i \in DOMAIN s : \A j \in DOMAIN s : ~RLt(s[j], s[i])]

RMax(s) ==
  IF \E i \in DOMAIN s : IsNan(s[i]) THEN NaN
  ELSE s[CHOOSE i \in DOMAIN s : \A j \in DOMAIN s : ~RLt(s[i], s[j])]

\* np.mean of a sequence of rationals (nan for an empty one)
RMean(s) == RDiv(RSum(s), R(Len(s), 1))

\* np.var: the mean of the squared deviations from the mean, computed as
\* (n * sum(x^2) - sum(x)^2) / n^2
RVar(s) ==
  LET n == Len(s)
      s1 == RSum(s)
      s2 == RSum([i \in DOMAIN s |-> RMul(s[i], s[i])])
  IN  RDiv(RSub(RMul(R(n, 1), s2), RMul(s1, s1)), R(n * n, 1))

\* the k-th smallest entry of s (finite entries), as a sort would place it
Kth(s, k) ==
  s[CHOOSE i \in DOMAIN s :
      /\ Cardinality({j \in DOMAIN s : RLt(s[j], s[i])}) < k
      /\ Cardinality({j \in DOMAIN s : ~RLt(s[i], s[j])}) >= k]

\* np.median: middle of the sorted values, mean of the two middle ones for an
\* even count, nan for an empty array or one holding a nan
RMedian(s) ==
  IF s = <<>> \/ (\E i \in DOMAIN s : IsNan(s[i])) THEN NaN
  ELSE LET n == Len(s)
       IN  IF n % 2 = 1 THEN Kth(s, (n + 1) \div 2)
           ELSE RDiv(RAdd(Kth(s, n \div 2), Kth(s, n \div 2 + 1)), R(2, 1))

\* scipy.interpolate.interp1d(xs, ys)(x), kind='linear', bounds_error=True
InBounds(xs, x) == xs[1] <= x /\ x <= xs[Len(xs)]

interp1d(xs, ys, x) ==
  LET j == CHOOSE k \in 1..(Len(xs) - 1) : xs[k] <= x /\ x <= xs[k + 1]
      w == xs[j + 1] - xs[j]
  IN  RAdd(RMul(ys[j], R(xs[j + 1] - x, w)), RMul(ys[j + 1], R(x - xs[j], w)))

\* a matrix flattened row by row (ndarray.ravel)
RECURSIVE Flatten(_)
Flatten(m) == IF m = <<>> THEN <<>> ELSE Flatten(SubSeq(m, 1, Len(m) - 1)) \o m[Len(m)]

\* the subsequence of s at the indices where keep is true
RECURSIVE Select(_, _)
Select(s, keep) ==
  IF s = <<>> THEN <<>>
  ELSE LET n == Len(s)
           head == Select(SubSeq(s, 1, n - 1), SubSeq(keep, 1, n - 1))
       IN  IF keep[n] THEN Append(head, s[n]) ELSE head

(***************************************************************************)
(* State.  KpV: the mapper's copy of the CCF map (self.ccf.flux), its copy *)
(* of the ephemeris (self.planet) and the attributes run and snr_at_peak   *)
(* store.  <<>> stands for an attribute that has not been set.             *)
(***************************************************************************)
VARIABLES
  kpv_flux,     \* KpV.ccf.flux, [nObs x nRV]
  planet_s2,    \* ephemeris: twice the sine of each frame's orbital phase
  planet_ecl,   \* ephemeris: mask_eclipse(), TRUE = frame in eclipse
  planet_Kp,    \* KpV.planet.Kp
  ccf_map,      \* KpV.ccf_map, [nKp x nVrest]
  indh,         \* KpV.indh (row of the peak, 1-based here)
  indv,         \* KpV.indv (column of the peak, 1-based here)
  peak_pos,     \* KpV.peak_pos
  peak_snr,     \* KpV.peak_snr
  kpvOp,        \* the last KpV operation and how it ended
  kpBefore,     \* planet.Kp when the last run was called
  lastIgnore,   \* ignore_eclipse of the last run
  mapBefore,    \* ccf_map when the last run was called
  nRuns,        \* number of KpV operations so far
  has_planet,   \* the mapper has its attribute planet
  bestSNR,      \* KpV.bestSNR, stored by snr_max
  slice_out,    \* what the last get_slice returned: <<axis, index, values>>
  fit,          \* KpV.fit, the list fit_peak fills
  fitFailed,    \* the slices whose curve_fit raised in the last fit_peak
  mapAtSave,    \* ccf_map when save deleted the planet
  \* CCF: the object CCF.run works on and the datacube it is given
  template,     \* CCF.template.flux, over the knots TemplateWlt
  template0,    \* the template flux CCF was constructed with
  dc,           \* the datacube handed to CCF.run
  ccf_flux,     \* CCF.flux, the CCF map [nObs x nTrialRV]
  pc,           \* where CCF.run stands: "idle" or "orders"
  output,       \* the local list of per-order maps of the run under way
  run_noise,    \* the noise argument of the run under way
  fluxBefore,   \* CCF.flux when the last run was called
  ccfOp,        \* the last step of CCF.run and how it ended
  \* merge_kpvs: the maps to merge and the result
  kpv_list,     \* the ccf_map of three KpV objects on the same grids
  merged,       \* ccf_map of the KpV the last merge returned
  mergeOp,      \* the last merge: which maps, in which nesting
  \* Align: the frame aligner of align.py
  dco_flux,     \* Align.dco.flux, [nObs x nPix], after __init__
  RVt,          \* Align.RVt, the trial shifts in pixels
  shifts,       \* Align.shifts
  align_ccf,    \* Align.ccf, [nObs x nTrialShifts]
  alignPc,      \* the frame Align.run handles next, 0 when no run is under way
  alignOp       \* the last step of Align.run and how it ended

kpvVars == <<kpv_flux, planet_s2, planet_ecl, planet_Kp, ccf_map, indh, indv,
             peak_pos, peak_snr, kpvOp, kpBefore, lastIgnore, mapBefore,
             nRuns>>

kpvMore == <<has_planet, bestSNR, slice_out, fit, fitFailed, mapAtSave>>

ccfVars == <<template, template0, dc, ccf_flux, pc, output, run_noise,
             fluxBefore, ccfOp>>

mergeVars == <<kpv_list, merged, mergeOp>>

alignVars == <<dco_flux, RVt, shifts, align_ccf, alignPc, alignOp>>

vars == <<kpvVars, kpvMore, ccfVars, mergeVars, alignVars>>

notKpV == <<ccfVars, mergeVars, alignVars>>

notCCF == <<kpvVars, kpvMore, mergeVars, alignVars>>

notMerge == <<kpvVars, kpvMore, ccfVars, alignVars>>

notAlign == <<kpvVars, kpvMore, ccfVars, mergeVars>>

\* bounds of the model
NObs == 2

MaxFlux == 1

MaxOps == 3

MaxData == 1

\* CCF(rv=...): the trial-velocity grid -RvHalf..RvHalf in steps of RvStep (km/s)
RvHalf == 24

RvStep == 8

NRv == (2 * RvHalf) \div RvStep + 1

rv == [k \in 1..NRv |-> -RvHalf + (k - 1) * RvStep]

\* CCF.dRV = np.mean(np.diff(rv)): the differences telescope
ccf_dRV == (rv[NRv] - rv[1]) \div (NRv - 1)

\* KpV(ccf, planet, deltaRV=None, kp_radius, vrest_max, bkg=None)
Kp0 == 16

kp_radius == 16

vrest_max == 8

dRV == ccf_dRV

\* len(np.arange(-kp_radius, kp_radius, dRV))
NKp == (2 * kp_radius + dRV - 1) \div dRV

kpVec == [i \in 1..NKp |-> Kp0 - kp_radius + (i - 1) * dRV]

\* len(np.arange(-vrest_max, vrest_max + dRV, dRV))
NV == (2 * vrest_max + 2 * dRV - 1) \div dRV

vrestVec == [i \in 1..NV |-> -vrest_max + (i - 1) * dRV]

\* bkg or vrest_max*0.60
bkg == R(3 * vrest_max, 5)

Lift(s) == [i \in DOMAIN s |-> R(s[i], 1)]

\* Planet.RV for trial Kp: Kp * sin(2 pi phase), per frame
PlanetRV(kp, i) == (kp * planet_s2[i]) \div 2

\* a stack that never drops a frame
Included_all(ign) == [i \in 1..NObs |-> TRUE]

\* the frames run stacks: np.where(ecl == False)[0]
Included(ign) == [i \in 1..NObs |-> ~(ign /\ planet_ecl[i])]

\* outRV = vrestVec + pRV[iObs]
outRV(ikp, i) == [iv \in 1..NV |-> vrestVec[iv] + PlanetRV(kpVec[ikp], i)]

\* interp1d(self.ccf.rv, self.ccf.flux[iObs,])(outRV) raises ValueError when a
\* requested velocity is outside the trial grid
FrameFails(ikp, i) == \E iv \in 1..NV : ~InBounds(rv, outRV(ikp, i)[iv])

FrameRow(ikp, i) ==
  [iv \in 1..NV |-> interp1d(rv, Lift(kpv_flux[i]), outRV(ikp, i)[iv])]

\* ccf_map = np.zeros((len(kpVec), len(vrestVec)))
ZeroMap == [ikp \in 1..NKp |-> [iv \in 1..NV |-> Zero]]

\* a run that starts from the map of the previous run
RunInitialMap_keep(prev) == IF prev = <<>> THEN ZeroMap ELSE prev

RunInitialMap(prev) == ZeroMap

\* ccf_map[ikp,] += interp1d(...)(outRV), frame after frame up to frame n
RECURSIVE RowAccum(_, _, _, _)
RowAccum(row0, ikp, inc, n) ==
  IF n = 0 THEN row0
  ELSE LET acc == RowAccum(row0, ikp, inc, n - 1)
           fr == FrameRow(ikp, n)
       IN  IF inc[n]
           THEN [iv \in 1..NV |-> RAdd(acc[iv], fr[iv])]
           ELSE acc

RunMap(prev, ign) ==
  LET m0 == RunInitialMap(prev)
  IN  [ikp \in 1..NKp |-> RowAccum(m0[ikp], ikp, Included(ign), NObs)]

\* the Kp rows at which the loop raises
FailRows(ign) ==
  {ikp \in 1..NKp : \E i \in 1..NObs : Included(ign)[i] /\ FrameFails(ikp, i)}

FirstFail(ign) == CHOOSE ikp \in FailRows(ign) : \A j \in FailRows(ign) : ikp <= j

\* background region = |vrestVec| > bkg
noise_region == [iv \in 1..NV |-> RLt(bkg, R(Abs(vrestVec[iv]), 1))]

\* statistics over the whole map
Background_all(m) == Flatten(m)

\* ccf_map[:, noise_region], flattened
Background(m) == Flatten([ikp \in DOMAIN m |-> Select(m[ikp], noise_region)])

\* KpV.noise = np.std(...): kept as its square, the variance (a square root is
\* not rational); noise = 0 iff variance = 0, nan iff nan
noise(m) == RVar(Background(m))

\* KpV.baseline = np.median(...)
baseline(m) == RMedian(Background(m))

\* one cell of (ccf_map - bkg) / noise, kept as the signed square
\* d*|d| / noise^2, which orders and equates cells exactly as d / noise does
SnrCell(x, b, n2) ==
  LET d == RSub(x, b)
  IN  RDiv(RMul(d, <<Abs(d[1]), d[2]>>), n2)

snr(m) ==
  LET b == baseline(m)
      n2 == noise(m)
  IN  [ikp \in DOMAIN m |-> [iv \in 1..NV |-> SnrCell(m[ikp][iv], b, n2)]]

\* the default search window of snr_at_peak
KpWindow == 10

DvWindow == 5

\* mask_kp = np.abs(kpVec - kpVec.mean()) < 10.
mask_kp ==
  LET mean == RMean(Lift(kpVec))
  IN  [ikp \in 1..NKp |->
         LET d == RSub(R(kpVec[ikp], 1), mean)
         IN  RLt(<<Abs(d[1]), d[2]>>, R(KpWindow, 1))]

\* mask_dv = np.abs(vrestVec) < 5.
mask_dv == [iv \in 1..NV |-> Abs(vrestVec[iv]) < DvWindow]

\* snr[~mask_kp, :] = snr.min(); snr[:, ~mask_dv] = snr.min()
ClampRows(s) ==
  LET lo == RMin(Flatten(s))
  IN  [ikp \in 1..NKp |-> [iv \in 1..NV |-> IF mask_kp[ikp] THEN s[ikp][iv] ELSE lo]]

ClampCols(s) ==
  LET lo == RMin(Flatten(s))
  IN  [ikp \in 1..NKp |-> [iv \in 1..NV |-> IF mask_dv[iv] THEN s[ikp][iv] ELSE lo]]

\* a peak search over the unclamped surface
SnrClamped_open(m) == snr(m)

SnrClamped(m) == ClampCols(ClampRows(snr(m)))

\* np.where(snr == snr.max())
PeakCells(s) ==
  LET hi == RMax(Flatten(s))
  IN  {c \in (1..NKp) \X (1..NV) : REq(s[c[1]][c[2]], hi)}

(***************************************************************************)
(* KpV operations                                                          *)
(***************************************************************************)
\* the rows a CCF map holds here: flat, or one spike of height 1..MaxFlux
FluxRows ==
  {[k \in 1..NRv |-> 0]} \cup
  {[k \in 1..NRv |-> IF k = p THEN h ELSE 0] : p \in 1..NRv, h \in 1..MaxFlux}

\* phases: conjunction (in or out of eclipse), an intermediate phase and the
\* quadrature, where the velocity leaves the trial grid at the largest Kp
Phases == {<<0, FALSE>>, <<0, TRUE>>, <<1, FALSE>>, <<2, FALSE>>}

\* no CCF object takes part
IdleCCF ==
  /\ template = <<>>
  /\ template0 = <<>>
  /\ dc = <<>>
  /\ ccf_flux = <<>>
  /\ pc = "idle"
  /\ output = <<>>
  /\ run_noise = ""
  /\ fluxBefore = <<>>
  /\ ccfOp = "init"

\* no aligner takes part
IdleAlign ==
  /\ dco_flux = <<>>
  /\ RVt = <<>>
  /\ shifts = <<>>
  /\ align_ccf = <<>>
  /\ alignPc = 0
  /\ alignOp = "init"

\* no merge and no aligner take part
IdleMerge ==
  /\ kpv_list = <<>>
  /\ merged = <<>>
  /\ mergeOp = <<"init">>
  /\ IdleAlign

\* the attributes a new mapper does not have yet, and its planet
InitMore ==
  /\ has_planet = TRUE
  /\ bestSNR = <<>>
  /\ slice_out = <<>>
  /\ fit = <<"unset">>
  /\ fitFailed = {}
  /\ mapAtSave = <<>>

\* KpV.__init__
InitKpV ==
  /\ IdleCCF
  /\ IdleMerge
  /\ InitMore
  /\ kpv_flux \in [1..NObs -> FluxRows]
  /\ \E ph \in [1..NObs -> Phases] :
       /\ planet_s2 = [i \in 1..NObs |-> ph[i][1]]
       /\ planet_ecl = [i \in 1..NObs |-> ph[i][2]]
  /\ planet_Kp = Kp0
  /\ ccf_map = <<>>
  /\ indh = 0
  /\ indv = 0
  /\ peak_pos = <<>>
  /\ peak_snr = <<>>
  /\ kpvOp = "init"
  /\ kpBefore = Kp0
  /\ lastIgnore = FALSE
  /\ mapBefore = <<>>
  /\ nRuns = 0

\* KpV.run(ignore_eclipse)
Run ==
  /\ nRuns < MaxOps
  /\ has_planet
  /\ \E ign \in BOOLEAN :
       /\ lastIgnore' = ign
       /\ kpBefore' = planet_Kp
       /\ mapBefore' = ccf_map
       /\ IF FailRows(ign) = {}
          THEN /\ ccf_map' = RunMap(ccf_map, ign)
               /\ planet_Kp' = kpVec[NKp]
               /\ kpvOp' = "run"
          ELSE /\ planet_Kp' = kpVec[FirstFail(ign)]
               /\ kpvOp' = "run_raised"
               /\ UNCHANGED ccf_map
  /\ nRuns' = nRuns + 1
  /\ UNCHANGED <<kpv_flux, planet_s2, planet_ecl, indh, indv, peak_pos, peak_snr>>
  /\ UNCHANGED kpvMore
  /\ UNCHANGED notKpV

\* KpV.snr_at_peak(peak=None)
SnrAtPeakNone ==
  /\ nRuns < MaxOps
  /\ ccf_map # <<>>
  /\ LET cells == PeakCells(SnrClamped(ccf_map))
     IN  IF Cardinality(cells) = 1
         THEN LET cell == CHOOSE x \in cells : TRUE
              IN  /\ indh' = cell[1]
                  /\ indv' = cell[2]
                  /\ peak_pos' = <<vrestVec[cell[2]], kpVec[cell[1]]>>
                  /\ peak_snr' = snr(ccf_map)[cell[1]][cell[2]]
                  /\ kpvOp' = "peak_none"
         ELSE /\ kpvOp' = "peak_none_raised"
              /\ UNCHANGED <<indh, indv, peak_pos, peak_snr>>
  /\ nRuns' = nRuns + 1
  /\ UNCHANGED <<kpv_flux, planet_s2, planet_ecl, planet_Kp, ccf_map, kpBefore,
                 lastIgnore, mapBefore>>
  /\ UNCHANGED kpvMore
  /\ UNCHANGED notKpV

NextKpV == Run \/ SnrAtPeakNone

SpecKpV == InitKpV /\ [][NextKpV]_vars

(***************************************************************************)
(* KpV: the peak searches, the slices, the fits and save                   *)
(***************************************************************************)
\* np.argmax of a row: the first nan if there is one, else the first maximum
ArgMax(row) ==
  IF \E k \in DOMAIN row : IsNan(row[k])
  THEN CHOOSE k \in DOMAIN row :
         IsNan(row[k]) /\ \A j \in 1..(k - 1) : ~IsNan(row[j])
  ELSE CHOOSE k \in DOMAIN row :
         /\ \A j \in DOMAIN row : RLe(row[j], row[k])
         /\ \A j \in 1..(k - 1) : RLt(row[j], row[k])

\* np.abs(vec - x).argmin(): the first index nearest to x
ArgMinAbs(vec, x) ==
  CHOOSE i \in DOMAIN vec :
    /\ \A j \in DOMAIN vec : Abs(vec[i] - x) <= Abs(vec[j] - x)
    /\ \A j \in 1..(i - 1) : Abs(vec[j] - x) > Abs(vec[i] - x)

SlicePeakCells(m) == PeakCells(snr(m))

\* np.take(y, ind, axis): row ind for axis = 0, column ind for axis = 1
Take(y, ind, axis) ==
  IF axis = 0 THEN y[ind] ELSE [ikp \in 1..NKp |-> y[ikp][ind]]

\* KpV.get_slice(axis), peak=None, snr=True, fit=False.  np.array([kpVec,
\* vrestVec]) of two vectors of different lengths is an error in numpy from
\* 1.24 on and an array of two objects before: both outcomes are kept.
GetSlice ==
  /\ nRuns < MaxOps
  /\ ccf_map # <<>>
  /\ LET y == snr(ccf_map)
         cells == SlicePeakCells(ccf_map)
     IN  \E axis \in {0, 1}, ragged_ok \in (IF NKp = NV THEN {TRUE} ELSE BOOLEAN) :
           /\ bestSNR' = RMax(Flatten(y))
           /\ IF Cardinality(cells) = 1 /\ ragged_ok
              THEN LET cell == CHOOSE x \in cells : TRUE
                       peak == <<kpVec[cell[1]], vrestVec[cell[2]]>>
                       ind == IF axis = 0 THEN ArgMinAbs(kpVec, peak[1])
                                          ELSE ArgMinAbs(vrestVec, peak[2])
                   IN  /\ slice_out' = <<axis, ind, Take(y, ind, axis)>>
                       /\ kpvOp' = "slice"
              ELSE /\ kpvOp' = "slice_raised"
                   /\ UNCHANGED slice_out
  /\ nRuns' = nRuns + 1
  /\ UNCHANGED <<kpv_flux, planet_s2, planet_ecl, planet_Kp, ccf_map, indh, indv,
                 peak_pos, peak_snr, kpBefore, lastIgnore, mapBefore>>
  /\ fitFailed' = {}
  /\ UNCHANGED <<has_planet, fit, mapAtSave>>
  /\ UNCHANGED notKpV

\* the peak arguments tried: Kp values, and (Vrest, Kp) pairs
KpArgs == {4, 20}

PairArgs == {<<-8, 4>>, <<1, 20>>}

\* self.snr[self.indh, mask_dv].argmax(), as an index of vrestVec
ArgMaxInWindow(row) ==
  LET cols == Select([iv \in 1..NV |-> iv], mask_dv)
  IN  cols[ArgMax(Select(row, mask_dv))]

\* KpV.snr_at_peak(peak), peak a float: the Kp value; peak_pos is not assigned
SnrAtPeakFloat ==
  /\ nRuns < MaxOps
  /\ ccf_map # <<>>
  /\ \E peak \in KpArgs :
       LET h == ArgMinAbs(kpVec, peak)
           v == ArgMaxInWindow(snr(ccf_map)[h])
       IN  /\ indh' = h
           /\ indv' = v
           /\ peak_pos' = peak_pos
           /\ peak_snr' = snr(ccf_map)[h][v]
  /\ kpvOp' = "peak_float"
  /\ nRuns' = nRuns + 1
  /\ UNCHANGED <<kpv_flux, planet_s2, planet_ecl, planet_Kp, ccf_map, kpBefore,
                 lastIgnore, mapBefore>>
  /\ UNCHANGED kpvMore
  /\ UNCHANGED notKpV

\* KpV.snr_at_peak(peak), peak a tuple (Vrest, Kp); peak_pos is not assigned
SnrAtPeakTuple ==
  /\ nRuns < MaxOps
  /\ ccf_map # <<>>
  /\ \E peak \in PairArgs :
       LET v == ArgMinAbs(vrestVec, peak[1])
           h == ArgMinAbs(kpVec, peak[2])
       IN  /\ indv' = v
           /\ indh' = h
           /\ peak_pos' = peak_pos
           /\ peak_snr' = snr(ccf_map)[h][v]
  /\ kpvOp' = "peak_tuple"
  /\ nRuns' = nRuns + 1
  /\ UNCHANGED <<kpv_flux, planet_s2, planet_ecl, planet_Kp, ccf_map, kpBefore,
                 lastIgnore, mapBefore>>
  /\ UNCHANGED kpvMore
  /\ UNCHANGED notKpV

\* KpV.get_slice(axis, fit=True): the slice and the parameters of its Gaussian
\* fit.  scipy's curve_fit returns the parameters or raises (RuntimeError when
\* the least-squares fit does not converge); get_slice does not catch it.
GetSliceFit ==
  /\ nRuns < MaxOps
  /\ ccf_map # <<>>
  /\ LET y == snr(ccf_map)
         cells == SlicePeakCells(ccf_map)
     IN  \E axis \in {0, 1}, ragged_ok \in (IF NKp = NV THEN {TRUE} ELSE BOOLEAN),
            converges \in BOOLEAN :
           /\ bestSNR' = RMax(Flatten(y))
           /\ IF Cardinality(cells) # 1 \/ ~ragged_ok
              THEN /\ kpvOp' = "slice_raised"
                   /\ fitFailed' = {}
                   /\ UNCHANGED slice_out
              ELSE IF ~converges
              THEN /\ kpvOp' = "slice_fit_raised"
                   /\ fitFailed' = {axis}
                   /\ UNCHANGED slice_out
              ELSE LET cell == CHOOSE x \in cells : TRUE
                       ind == IF axis = 0 THEN ArgMinAbs(kpVec, kpVec[cell[1]])
                                          ELSE ArgMinAbs(vrestVec, vrestVec[cell[2]])
                   IN  /\ slice_out' = <<axis, ind, Take(y, ind, axis), "popt">>
                       /\ kpvOp' = "slice_fit"
                       /\ fitFailed' = {}
  /\ nRuns' = nRuns + 1
  /\ UNCHANGED <<kpv_flux, planet_s2, planet_ecl, planet_Kp, ccf_map, indh, indv,
                 peak_pos, peak_snr, kpBefore, lastIgnore, mapBefore>>
  /\ UNCHANGED <<has_planet, fit, mapAtSave>>
  /\ UNCHANGED notKpV

\* KpV.fit_peak: self.fit = [], then for both axes get_slice(i, fit=True) and
\* the append of its parameters; an exception of get_slice ends the loop
FitPeak ==
  /\ nRuns < MaxOps
  /\ ccf_map # <<>>
  /\ LET best == RMax(Flatten(snr(ccf_map)))
         ncells == Cardinality(SlicePeakCells(ccf_map))
     IN  \E ragged_ok \in (IF NKp = NV THEN {TRUE} ELSE BOOLEAN),
            converges \in [{0, 1} -> BOOLEAN] :
       /\ bestSNR' = best
       /\ IF ncells # 1 \/ ~ragged_ok
          THEN /\ fit' = <<>>
               /\ fitFailed' = {}
               /\ kpvOp' = "fit_peak_raised"
          ELSE IF ~converges[0]
          THEN /\ fit' = <<>>
               /\ fitFailed' = {0}
               /\ kpvOp' = "fit_peak_fit_raised"
          ELSE IF ~converges[1]
          THEN /\ fit' = <<"popt">>
               /\ fitFailed' = {1}
               /\ kpvOp' = "fit_peak_fit_raised"
          ELSE /\ fit' = <<"popt", "popt">>
               /\ fitFailed' = {}
               /\ kpvOp' = "fit_peak"
  /\ nRuns' = nRuns + 1
  /\ UNCHANGED <<kpv_flux, planet_s2, planet_ecl, planet_Kp, ccf_map, indh, indv,
                 peak_pos, peak_snr, kpBefore, lastIgnore, mapBefore>>
  /\ UNCHANGED <<has_planet, slice_out, mapAtSave>>
  /\ UNCHANGED notKpV

\* a save that works on a copy of the mapper
PlanetAfterSave_kept == TRUE

\* delattr(self, 'planet'): the mapper itself loses its planet
PlanetAfterSave == FALSE

\* KpV.save(outname): delattr raises when there is no planet; np.save writes
\* the file or raises, after the planet has gone
Save ==
  /\ nRuns < MaxOps
  /\ IF ~has_planet
     THEN /\ kpvOp' = "save_raised"
          /\ UNCHANGED <<has_planet, mapAtSave>>
     ELSE /\ has_planet' = PlanetAfterSave
          /\ mapAtSave' = ccf_map
          /\ \E written \in BOOLEAN :
               kpvOp' = IF written THEN "save" ELSE "save_io_raised"
  /\ nRuns' = nRuns + 1
  /\ UNCHANGED <<kpv_flux, planet_s2, planet_ecl, planet_Kp, ccf_map, indh, indv,
                 peak_pos, peak_snr, kpBefore, lastIgnore, mapBefore>>
  /\ UNCHANGED <<bestSNR, slice_out, fit, fitFailed>>
  /\ UNCHANGED notKpV

\* KpV.run on a mapper without planet: self.planet.RV raises AttributeError
RunNoPlanet ==
  /\ nRuns < MaxOps
  /\ ~has_planet
  /\ \E ign \in BOOLEAN : lastIgnore' = ign
  /\ kpBefore' = planet_Kp
  /\ mapBefore' = ccf_map
  /\ kpvOp' = "run_raised"
  /\ nRuns' = nRuns + 1
  /\ UNCHANGED <<kpv_flux, planet_s2, planet_ecl, planet_Kp, ccf_map, indh, indv,
                 peak_pos, peak_snr>>
  /\ UNCHANGED kpvMore
  /\ UNCHANGED notKpV

\* the mappers of the peak study: spikes of height 1 at rv = 8 or 16, frames
\* out of eclipse at conjunction or at the intermediate phase, the last frame
\* at the intermediate phase
PeakRows ==
  {[k \in 1..NRv |-> 0]} \cup
  {[k \in 1..NRv |-> IF k = p THEN 1 ELSE 0] : p \in {5, 6}}

InitPeak ==
  /\ InitKpV
  /\ \A i \in 1..NObs : /\ kpv_flux[i] \in PeakRows
                         /\ planet_s2[i] \in {0, 1}
                         /\ ~planet_ecl[i]
  /\ planet_s2[NObs] = 1

NextPeak ==
  \/ Run
  \/ SnrAtPeakNone
  \/ SnrAtPeakFloat
  \/ SnrAtPeakTuple
  \/ GetSlice
  \/ GetSliceFit
  \/ FitPeak
  \/ Save
  \/ RunNoPlanet

SpecPeak == InitPeak /\ [][NextPeak]_vars

(***************************************************************************)
(* CCF: the cross-correlation engine                                       *)
(***************************************************************************)
\* c = 2.998e5 km/s
c == 299800

\* CCF(rv=...) of the engine: trial velocities -RvMax..RvMax in steps of 1 km/s
RvMax == 1

NTrial == 2 * RvMax + 1

trial_rv == [k \in 1..NTrial |-> k - RvMax - 1]

\* the datacube: NObsC frames of NPix pixels; pixel p has wavelength p * c
NObsC == 2

NPix == 2

wlt == [p \in 1..NPix |-> p * c]

\* the template's wavelength axis: around every pixel p the knots p * (c + d),
\* d = -RvMax..RvMax, where the Doppler-shifted pixel lands
NKnots == NPix * NTrial

TemplateWlt ==
  [k \in 1..NKnots |->
     LET p == (k - 1) \div NTrial + 1
         d == ((k - 1) % NTrial) - RvMax
     IN  p * (c + d)]

\* Template.crop(wmin, wmax, eps=0.40): the knots within the covered range
\* widened by the fraction eps at both ends
CropKeep(wmin, wmax) ==
  [k \in 1..NKnots |-> /\ (3 * wmin) \div 5 <= TemplateWlt[k]
                       /\ TemplateWlt[k] <= (7 * wmax) \div 5]

\* Template.high_pass_gaussian(window), in place: the flux minus its low-pass,
\* the low-pass of a window wider than the template being its mean
high_pass_gaussian(t) ==
  LET m == RMean(t)
  IN  [k \in DOMAIN t |-> RSub(t[k], m)]

\* the valid pixels of an order: ~np.isnan(dco.wlt)
Valid(o) == [p \in 1..NPix |-> ~dc.nan[o][p]]

ValidPix(o) == {p \in 1..NPix : Valid(o)[p]}

\* flux[:, ~nans]
UsableFlux(o) == [i \in 1..NObsC |-> Select(Lift(dc.flux[o][i]), Valid(o))]

\* f = flux - np.mean(flux): the mean is taken over the whole array
Centred(o) ==
  LET fl == UsableFlux(o)
      m == RMean(Flatten(fl))
  IN  [i \in 1..NObsC |-> [q \in DOMAIN fl[i] |-> RSub(fl[i][q], m)]]

\* temp = self.template.copy().crop(min(wave), max(wave), eps=0.40);
\* temp.flux -= np.mean(temp.flux)
CroppedWlt(o) ==
  LET wave == Select(wlt, Valid(o))
  IN  Select(TemplateWlt, CropKeep(wave[1], wave[Len(wave)]))

CroppedFlux(t, o) ==
  LET wave == Select(wlt, Valid(o))
      fl == Select(t, CropKeep(wave[1], wave[Len(wave)]))
      m == RMean(fl)
  IN  [k \in DOMAIN fl |-> RSub(fl[k], m)]

\* wave * beta, beta = 1 - rv/c
Shifted(w, v) == w - (w * v) \div c

\* g = np.array([_inter(wave*b) for b in beta])
ShiftedTemplate(t, o) ==
  LET wave == Select(wlt, Valid(o))
      tw == CroppedWlt(o)
      tf == CroppedFlux(t, o)
  IN  [k \in 1..NTrial |->
         [q \in DOMAIN wave |-> interp1d(tw, tf, Shifted(wave[q], trial_rv[k]))]]

\* noise2 for noise = 'var' (np.var(f, axis=0)) and noise = 'ones' (1.)
Noise2(o, mode) ==
  LET f == Centred(o)
  IN  [q \in DOMAIN f[1] |->
         IF mode = "var" THEN RVar([i \in 1..NObsC |-> f[i][q]]) ELSE R(1, 1)]

\* the calls of cross_correlation that raise: no valid wavelength (np.min of
\* an empty array), a Doppler-shifted wavelength outside the cropped template
\* (interp1d), noise = 'flux_err' on a datacube without flux_err
Raises(o, mode) ==
  \/ ValidPix(o) = {}
  \/ mode = "flux_err"
  \/ LET wave == Select(wlt, Valid(o))
     IN  \E q \in DOMAIN wave, k \in 1..NTrial :
           ~InBounds(CroppedWlt(o), Shifted(wave[q], trial_rv[k]))

\* np.dot(f/noise2, g.T)
cross_correlation(t, o, mode) ==
  LET f == Centred(o)
      g == ShiftedTemplate(t, o)
      n2 == Noise2(o, mode)
  IN  [i \in 1..NObsC |->
         [k \in 1..NTrial |->
            RSum([q \in DOMAIN f[i] |-> RMul(RDiv(f[i][q], n2[q]), g[k][q])])]]

SumMaps_last(maps) == maps[Len(maps)]

\* np.sum(np.array(output), axis=0)
SumMaps(maps) ==
  [i \in 1..NObsC |-> [k \in 1..NTrial |->
     RSum([o \in DOMAIN maps |-> maps[o][i][k]])]]

\* the orders run visits: all of them for a 3D datacube, the datacube itself
\* otherwise
NOrders == Len(dc.flux)

FluxAfterOrder_write(fl, m) == m

\* what a finished order does to CCF.flux: nothing, the map goes to the list
FluxAfterOrder(fl, m) == fl

\* the datacubes: two frames a, b in the first order, b and the reverse of a
\* in the second
DataRows == [1..NPix -> 0..MaxData]

Reverse(s) == [q \in DOMAIN s |-> s[Len(s) + 1 - q]]

NoNan == [p \in 1..NPix |-> FALSE]

AllNan == [p \in 1..NPix |-> TRUE]

FirstNan == [p \in 1..NPix |-> p = 1]

DataCubes ==
  LET one(a, b) == <<a, b>>
      two(a, b) == <<b, Reverse(a)>>
  IN  UNION {
        { [flux |-> <<one(a, b)>>, nan |-> <<NoNan>>, multi |-> FALSE, filtered |-> TRUE],
          [flux |-> <<one(a, b)>>, nan |-> <<NoNan>>, multi |-> FALSE, filtered |-> FALSE],
          [flux |-> <<one(a, b), two(a, b)>>, nan |-> <<NoNan, NoNan>>, multi |-> TRUE, filtered |-> TRUE],
          [flux |-> <<one(a, b), two(a, b)>>, nan |-> <<FirstNan, NoNan>>, multi |-> TRUE, filtered |-> TRUE],
          [flux |-> <<one(a, b), two(a, b)>>, nan |-> <<NoNan, AllNan>>, multi |-> TRUE, filtered |-> TRUE] }
        : a \in DataRows, b \in DataRows }

\* the templates: an emission line in pixel 1 (0, 1, 0 over its knots), or a
\* slope over the knots of pixel 1 (0, 1, 2), the other pixels flat
Templates ==
  { [k \in 1..NKnots |-> IF k <= NTrial THEN R(RvMax - Abs(k - RvMax - 1), 1) ELSE Zero],
    [k \in 1..NKnots |-> IF k <= NTrial THEN R(k - 1, 1) ELSE R(1, 1)] }

NoiseModes == {"var", "ones", "flux_err"}

\* no KpV object takes part
IdleKpV ==
  /\ kpv_flux = <<>>
  /\ planet_s2 = <<>>
  /\ planet_ecl = <<>>
  /\ planet_Kp = Kp0
  /\ ccf_map = <<>>
  /\ indh = 0
  /\ indv = 0
  /\ peak_pos = <<>>
  /\ peak_snr = <<>>
  /\ kpvOp = "init"
  /\ kpBefore = Kp0
  /\ lastIgnore = FALSE
  /\ mapBefore = <<>>
  /\ nRuns = 0
  /\ InitMore

\* CCF.__init__(rv, template)
InitCCF ==
  /\ IdleKpV
  /\ IdleMerge
  /\ template0 \in Templates
  /\ template = template0
  /\ dc \in DataCubes
  /\ ccf_flux = <<>>
  /\ pc = "idle"
  /\ output = <<>>
  /\ run_noise = ""
  /\ fluxBefore = <<>>
  /\ ccfOp = "init"

\* CCF.run(dc, apply_filter, noise), up to the loop over the orders
RunBegin ==
  /\ pc = "idle"
  /\ \E apply_filter \in BOOLEAN, mode \in NoiseModes :
       /\ template' = IF apply_filter /\ dc.filtered
                      THEN high_pass_gaussian(template) ELSE template
       /\ run_noise' = mode
  /\ fluxBefore' = ccf_flux
  /\ output' = <<>>
  /\ pc' = "orders"
  /\ ccfOp' = "begin"
  /\ UNCHANGED <<template0, dc, ccf_flux>>
  /\ UNCHANGED notCCF

\* one call self.cross_correlation(dc.order(o), noise) of the comprehension
RunOrder ==
  /\ pc = "orders"
  /\ Len(output) < NOrders
  /\ LET o == Len(output) + 1
     IN  IF Raises(o, run_noise)
         THEN /\ pc' = "idle"
              /\ output' = <<>>
              /\ ccfOp' = "run_raised"
              /\ UNCHANGED ccf_flux
         ELSE LET m == cross_correlation(template, o, run_noise)
              IN  /\ output' = Append(output, m)
                  /\ ccf_flux' = FluxAfterOrder(ccf_flux, m)
                  /\ ccfOp' = "order"
                  /\ UNCHANGED pc
  /\ UNCHANGED <<template, template0, dc, run_noise, fluxBefore>>
  /\ UNCHANGED notCCF

\* self.flux = np.sum(np.array(output), axis=0), or the single map
RunEnd ==
  /\ pc = "orders"
  /\ Len(output) = NOrders
  /\ ccf_flux' = IF dc.multi THEN SumMaps(output) ELSE output[1]
  /\ pc' = "idle"
  /\ output' = <<>>
  /\ ccfOp' = "run_ok"
  /\ UNCHANGED <<template, template0, dc, run_noise, fluxBefore>>
  /\ UNCHANGED notCCF

NextCCF == RunBegin \/ RunOrder \/ RunEnd

SpecCCF == InitCCF /\ [][NextCCF]_vars

(***************************************************************************)
(* KpV.merge_kpvs                                                          *)
(***************************************************************************)
\* a merge that subtracts the baseline of the first map only
merge_kpvs_first(list) ==
  [ikp \in 1..NKp |-> [iv \in 1..NV |->
     RSub(RSum([j \in DOMAIN list |-> list[j][ikp][iv]]), baseline(list[1]))]]

\* new_kpv.ccf_map = np.sum([(k.ccf_map - k.baseline) for k in kpv_list], axis=0)
merge_kpvs(list) ==
  [ikp \in 1..NKp |-> [iv \in 1..NV |->
     RSum([j \in DOMAIN list |-> RSub(list[j][ikp][iv], baseline(list[j]))])]]

\* the maps to merge: off the peak column a step of height h, in the first
\* column over the rows up to l and in the last column over the rows after r;
\* in between a peak of height 5 in row 2
StepMap(l, r, h) ==
  [ikp \in 1..NKp |-> [iv \in 1..NV |->
     IF iv = 1 THEN (IF ikp <= l THEN R(h, 1) ELSE Zero)
     ELSE IF iv = NV THEN (IF ikp > r THEN R(h, 1) ELSE Zero)
     ELSE IF ikp = 2 THEN R(5, 1) ELSE Zero]]

MergeMaps ==
  {StepMap(l, r, h) : l \in {0, NKp - 1}, r \in {1, NKp}, h \in {1, 3}}

\* three KpV objects on the same grids, each with a map
InitMerge ==
  /\ IdleKpV
  /\ IdleCCF
  /\ kpv_list \in [1..3 -> MergeMaps]
  /\ merged = <<>>
  /\ mergeOp = <<"init">>
  /\ IdleAlign

\* merge_kpvs([x, y]) of two of the maps; a merge returns a new object and
\* leaves its arguments alone, so every behaviour makes one call
MergePair ==
  /\ mergeOp = <<"init">>
  /\ \E i \in 1..3, j \in 1..3 :
       /\ i # j
       /\ merged' = merge_kpvs(<<kpv_list[i], kpv_list[j]>>)
       /\ mergeOp' = <<"pair", i, j>>
  /\ UNCHANGED kpv_list
  /\ UNCHANGED notMerge

\* merge_kpvs([a, b, c])
MergeFlat ==
  /\ mergeOp = <<"init">>
  /\ merged' = merge_kpvs(kpv_list)
  /\ mergeOp' = <<"flat">>
  /\ UNCHANGED kpv_list
  /\ UNCHANGED notMerge

\* merge_kpvs([merge_kpvs([a, b]), c])
MergeLeft ==
  /\ mergeOp = <<"init">>
  /\ merged' = merge_kpvs(<<merge_kpvs(<<kpv_list[1], kpv_list[2]>>), kpv_list[3]>>)
  /\ mergeOp' = <<"left">>
  /\ UNCHANGED kpv_list
  /\ UNCHANGED notMerge

\* merge_kpvs([a, merge_kpvs([b, c])])
MergeRight ==
  /\ mergeOp = <<"init">>
  /\ merged' = merge_kpvs(<<kpv_list[1], merge_kpvs(<<kpv_list[2], kpv_list[3]>>)>>)
  /\ mergeOp' = <<"right">>
  /\ UNCHANGED kpv_list
  /\ UNCHANGED notMerge

NextMerge == MergePair \/ MergeFlat \/ MergeLeft \/ MergeRight

SpecMerge == InitMerge /\ [][NextMerge]_vars

(***************************************************************************)
(* Align (align.py): the shift of every frame against frame 0               *)
(***************************************************************************)
\* the series: NObsA frames of NPixA pixels
NObsA == 2

NPixA == 4

\* self.pixels = np.arange(0, nPix)
pixels == [p \in 1..NPixA |-> p - 1]

\* Align.clip(f, sigma=3.), in place: |f - mean| > 3 std, compared as squares;
\* with a nan in f mean and std are nan and nothing is clipped
clip(f) ==
  LET mean == RMean(f)
      var == RVar(f)
  IN  [p \in DOMAIN f |->
         LET d == RSub(f[p], mean)
         IN  IF RLt(RMul(R(9, 1), var), RMul(d, d)) THEN NaN ELSE f[p]]

\* nans = np.isnan(f) + np.isnan(g), negated
ValidPair(f, g) == [p \in 1..NPixA |-> ~IsNan(f[p]) /\ ~IsNan(g[p])]

\* splrep(x, y) needs more than k = 3 points
SplineOrder == 3

\* splev(x, splrep(xs, ys)) for four points: the cubic through them, which is
\* what the interpolating spline with no interior knot is
splev(x, xs, ys) ==
  RSum([i \in 1..4 |->
     LET o == Select([j \in 1..4 |-> j], [j \in 1..4 |-> j # i])
         num == (x - xs[o[1]]) * (x - xs[o[2]]) * (x - xs[o[3]])
         den == (xs[i] - xs[o[1]]) * (xs[i] - xs[o[2]]) * (xs[i] - xs[o[3]])
     IN  RMul(ys[i], R(num, den))])

\* the dot product of two vectors
Dot(f, g) == RSum([p \in DOMAIN f |-> RMul(f[p], g[p])])

\* Align.xcorr(f, g) = R / sqrt(varf * varg), kept as its signed square (a
\* square root is not rational): same order, same zeros, nan where it is nan
xcorr(f, g) ==
  LET r == Dot(f, g)
  IN  RDiv(RMul(r, <<Abs(r[1]), r[2]>>), RMul(Dot(f, f), Dot(g, g)))

\* the frames of get_shift(j) after clipping
ClippedRef(fl) == clip(fl[1])

ClippedFrame(fl, j) == IF j = 1 THEN clip(ClippedRef(fl)) ELSE clip(fl[j])

\* self.dco.flux after get_shift(j): clip writes into the frames themselves
FluxAfterClip(fl, j) ==
  [i \in DOMAIN fl |-> IF i = j THEN ClippedFrame(fl, j)
                       ELSE IF i = 1 THEN ClippedRef(fl) ELSE fl[i]]

\* the ccf row of frame j: xcorr(f[~nans], splev(fw + s, cs)) for s in RVt
ShiftRow(fl, j) ==
  LET f == ClippedRef(fl)
      g == ClippedFrame(fl, j)
      ok == ValidPair(f, g)
      fw == Select(pixels, ok)
      fv == Select(f, ok)
      gv == Select(g, ok)
  IN  [k \in DOMAIN RVt |->
         xcorr(fv, [q \in DOMAIN fw |-> splev(fw[q] + RVt[k], fw, gv)])]

\* the series tried: flux 1 or 2 in every pixel, no pixel or the second pixel
\* of one frame missing; the grids tried: around 0, and off 0
AlignFrames == [1..NPixA -> {R(1, 1), R(2, 1)}]

Missing(f) == [p \in 1..NPixA |-> IF p = 2 THEN NaN ELSE f[p]]

AlignGrids == {<<-1, 0, 1>>, <<1, 2>>}

\* Align.__init__(dco, RVt)
InitAlign ==
  /\ IdleKpV
  /\ IdleCCF
  /\ kpv_list = <<>>
  /\ merged = <<>>
  /\ mergeOp = <<"init">>
  /\ \E fl \in [1..NObsA -> AlignFrames], miss \in 0..NObsA :
       dco_flux = [i \in 1..NObsA |-> IF i = miss THEN Missing(fl[i]) ELSE fl[i]]
  /\ RVt \in AlignGrids
  /\ shifts = [i \in 1..NObsA |-> 0]
  /\ align_ccf = [i \in 1..NObsA |-> [k \in DOMAIN RVt |-> Zero]]
  /\ alignPc = 0
  /\ alignOp = "init"

\* Align.run is called: the comprehension starts with frame 0
AlignRun ==
  /\ alignPc = 0
  /\ alignOp = "init"
  /\ alignPc' = 1
  /\ alignOp' = "run_called"
  /\ UNCHANGED <<dco_flux, RVt, shifts, align_ccf>>
  /\ UNCHANGED notAlign

\* Align.get_shift(j) within run.  Both frames are clipped in place; splrep
\* raises TypeError when the pair has no more than 3 valid points
GetShift ==
  /\ alignPc \in 1..NObsA
  /\ LET j == alignPc
         ok == ValidPair(ClippedRef(dco_flux), ClippedFrame(dco_flux, j))
     IN  /\ dco_flux' = FluxAfterClip(dco_flux, j)
         /\ IF Cardinality({p \in 1..NPixA : ok[p]}) <= SplineOrder
            THEN /\ alignOp' = "raised_TypeError_in_splrep"
                 /\ alignPc' = 0
                 /\ UNCHANGED align_ccf
            ELSE /\ align_ccf' = [align_ccf EXCEPT ![j] = ShiftRow(dco_flux, j)]
                 /\ alignOp' = "get_shift"
                 /\ alignPc' = j + 1
  /\ UNCHANGED <<RVt, shifts>>
  /\ UNCHANGED notAlign

\* self.shifts = self.RVt[self.ccf.argmax(axis=1)]
AlignRunEnd ==
  /\ alignPc = NObsA + 1
  /\ shifts' = [i \in 1..NObsA |-> RVt[ArgMax(align_ccf[i])]]
  /\ alignPc' = 0
  /\ alignOp' = "run"
  /\ UNCHANGED <<dco_flux, RVt, align_ccf>>
  /\ UNCHANGED notAlign

NextAlign == AlignRun \/ GetShift \/ AlignRunEnd

SpecAlign == InitAlign /\ [][NextAlign]_vars

(***************************************************************************)
(* Claims about KpV, checked under SpecKpV                                 *)
(***************************************************************************)
SumKp == RSum(Lift(kpVec))[1]

InKpWindow(ikp) == Abs(NKp * kpVec[ikp] - SumKp) < KpWindow * NKp

InDvWindow(iv) == Abs(vrestVec[iv]) < DvWindow

\* C1: the cell a default peak search stores lies inside the window
\* |kpVec[indh] - mean(kpVec)| < 10 and |vrestVec[indv]| < 5.
C1_PeakInsideWindow ==
  kpvOp = "peak_none" => InKpWindow(indh) /\ InDvWindow(indv)

\* a peak was stored although a cell outside the window has a larger SNR
C1_Witness ==
  /\ kpvOp = "peak_none"
  /\ \E ikp \in 1..NKp, iv \in 1..NV :
       /\ ~(InKpWindow(ikp) /\ InDvWindow(iv))
       /\ RLt(peak_snr, snr(ccf_map)[ikp][iv])

\* the map m with the in-range cells (|vrestVec| <= bkg) of the rows in rows
\* replaced by x
Perturbed(m, rows, x) ==
  [ikp \in 1..NKp |-> [iv \in 1..NV |->
     IF ikp \in rows /\ ~RLt(bkg, R(Abs(vrestVec[iv]), 1)) THEN x ELSE m[ikp][iv]]]

PerturbValues == {R(-5, 1), R(7, 2)}

PerturbRows == {1..NKp} \cup {{ikp} : ikp \in 1..NKp}

\* C3: noise and baseline are the same for every map that agrees with ccf_map
\* on the columns with |vrestVec| > bkg, whatever the other columns hold.
C3_BackgroundOnly ==
  kpvOp = "run" =>
    LET n0 == noise(ccf_map)
        b0 == baseline(ccf_map)
    IN  \A rows \in PerturbRows, x \in PerturbValues :
          LET m2 == Perturbed(ccf_map, rows, x)
          IN  noise(m2) = n0 /\ baseline(m2) = b0

\* a map with non-zero noise whose in-range column holds a value off the
\* baseline
C3_Witness ==
  /\ ccf_map # <<>>
  /\ RLt(Zero, noise(ccf_map))
  /\ \E ikp \in 1..NKp, iv \in 1..NV :
       /\ ~RLt(bkg, R(Abs(vrestVec[iv]), 1))
       /\ RLt(baseline(ccf_map), ccf_map[ikp][iv])

\* the frames the claim counts as included
StackFrames == {i \in 1..NObs : ~(lastIgnore /\ planet_ecl[i])}

RECURSIVE SetSum(_, _, _)
SetSum(S, ikp, iv) ==
  IF S = {} THEN Zero
  ELSE LET i == CHOOSE x \in S : \A y \in S : y <= x
       IN  RAdd(interp1d(rv, Lift(kpv_flux[i]),
                         vrestVec[iv] + (kpVec[ikp] * planet_s2[i]) \div 2),
                SetSum(S \ {i}, ikp, iv))

\* C5: after run every row of ccf_map is the sum over the included frames of
\* the frame's CCF row interpolated at vrestVec + RV_i(kpVec[ikp]).
C5_StackOfIncluded ==
  kpvOp = "run" =>
    \A ikp \in 1..NKp, iv \in 1..NV :
      ccf_map[ikp][iv] = SetSum(StackFrames, ikp, iv)

\* a run that ignored an in-eclipse frame whose own stack is not zero
C5_Witness ==
  /\ kpvOp = "run"
  /\ lastIgnore
  /\ \E i \in 1..NObs :
       /\ planet_ecl[i]
       /\ \E ikp \in 1..NKp, iv \in 1..NV : FrameRow(ikp, i)[iv] # Zero
  /\ \E i \in 1..NObs : ~planet_ecl[i] /\ kpv_flux[i] # [k \in 1..NRv |-> 0]

\* C7: after a run, ccf_map is the map one run with the same argument builds
\* on a freshly configured mapper.
C7_RerunFromScratch ==
  kpvOp = "run" => ccf_map = RunMap(<<>>, lastIgnore)

\* a run that replaced a different earlier map
C7_Witness ==
  /\ kpvOp = "run"
  /\ mapBefore # <<>>
  /\ mapBefore # ccf_map
  /\ mapBefore # ZeroMap

\* C9: after run returns, the mapper's ephemeris has the Kp it had before.
C9_KpRestored ==
  kpvOp = "run" => planet_Kp = kpBefore

(***************************************************************************)
(* Claims about CCF                                                        *)
(***************************************************************************)
\* the knot of the template where pixel p shifted by trial velocity k lands
Knot(p, k) == (p - 1) * NTrial + RvMax + 1 - trial_rv[k]

\* frame i of the datacube is the template Doppler-shifted by trial velocity k
IsCopy(i, k) ==
  \A p \in 1..NPix : Lift(dc.flux[1][i])[p] = template[Knot(p, k)]

\* C2: after a run on a single-order datacube without missing wavelengths,
\* every frame that is a noiseless copy of the template shifted by exactly one
\* trial velocity of the grid has the maximum of its CCF row in the column of
\* that trial velocity.
C2_PeakAtInjectedShift ==
  (ccfOp = "run_ok" /\ ~dc.multi) =>
    \A i \in 1..NObsC, k \in 1..NTrial :
      (IsCopy(i, k) /\ \A j \in 1..NTrial : j # k => ~IsCopy(i, j))
        => ArgMax(ccf_flux[i]) = k

\* the per-order maps of the last run, taken in the sequence perm of the orders
OrderMaps(perm) ==
  [j \in 1..NOrders |-> cross_correlation(template, perm[j], run_noise)]

\* the element-wise sum of the maps, added in the sequence given
AddMaps(maps) ==
  [i \in 1..NObsC |-> [k \in 1..NTrial |->
     RSumTo([j \in DOMAIN maps |-> maps[j][i][k]], Len(maps))]]

OrderPerms == {perm \in [1..NOrders -> 1..NOrders] :
                 \A o \in 1..NOrders : \E j \in 1..NOrders : perm[j] = o}

\* C6: after a run on a multi-order datacube CCF.flux is the element-wise sum
\* of the per-order maps of cross_correlation, each [nObs x nTrialRV], and
\* that sum is the same in whatever sequence the orders are taken.
C6_SumOverOrders ==
  (ccfOp = "run_ok" /\ dc.multi) =>
    \A perm \in OrderPerms :
      /\ \A j \in 1..NOrders :
           /\ Len(OrderMaps(perm)[j]) = NObsC
           /\ \A i \in 1..NObsC : Len(OrderMaps(perm)[j][i]) = NTrial
      /\ ccf_flux = AddMaps(OrderMaps(perm))

\* a multi-order run has finished whose two per-order maps differ and whose
\* sum differs from both
C6_Witness ==
  /\ ccfOp = "run_ok"
  /\ dc.multi
  /\ NOrders >= 2
  /\ LET m == OrderMaps([o \in 1..NOrders |-> o])
     IN  /\ m[1] # m[2]
         /\ ccf_flux # m[1]
         /\ ccf_flux # m[2]
         /\ \A i \in 1..NObsC, k \in 1..NTrial : IsFinite(ccf_flux[i][k])

\* the complete map of the run that has just finished
CompleteMap ==
  IF dc.multi
  THEN AddMaps(OrderMaps([o \in 1..NOrders |-> o]))
  ELSE cross_correlation(template, 1, run_noise)

\* C8: CCF.flux is never partially updated: while a run is under way and after
\* a run in which cross_correlation raised it is the map of before the run,
\* and after a run that finished it is the complete map of that run.
C8_NeverPartial ==
  /\ pc = "orders" => ccf_flux = fluxBefore
  /\ ccfOp = "run_raised" => ccf_flux = fluxBefore
  /\ ccfOp = "run_ok" => ccf_flux = CompleteMap

\* a run raised after an earlier run had stored a map, and the map is still
\* that of the earlier run
C8_Witness ==
  /\ ccfOp = "run_raised"
  /\ fluxBefore # <<>>
  /\ ccf_flux = fluxBefore

\* C10: the template stored in the CCF object is the template the object was
\* constructed with, after any sequence of runs with any value of apply_filter.
C10_TemplateImmutable == template = template0

\* C16: the usable flux is mean-centred per frame: for every frame the
\* centred flux used in the dot product has zero mean over the valid pixels,
\* whatever the other frames contain.
C16_CentredPerFrame ==
  ccfOp = "order" =>
    \A i \in 1..NObsC : REq(RSum(Centred(Len(output))[i]), Zero)

\* C17: every row of the Doppler-shifted template matrix g handed to the dot
\* product has zero mean: for every trial velocity the sum of the row over
\* the valid pixels is 0.
C17_TemplateRowsCentred ==
  ccfOp = "order" =>
    \A k \in 1..NTrial :
      REq(RSum(ShiftedTemplate(template, Len(output))[k]), Zero)

(***************************************************************************)
(* Claims about merge_kpvs                                                 *)
(***************************************************************************)
\* the sum of the three maps of kpv_list, each less its own baseline
FlatSum ==
  [ikp \in 1..NKp |-> [iv \in 1..NV |->
     RSumTo([j \in 1..3 |-> RSub(kpv_list[j][ikp][iv], baseline(kpv_list[j]))], 3)]]

\* the sum of two maps of kpv_list, each less its own baseline
PairSum(i, j) ==
  [ikp \in 1..NKp |-> [iv \in 1..NV |->
     RAdd(RSub(kpv_list[i][ikp][iv], baseline(kpv_list[i])),
          RSub(kpv_list[j][ikp][iv], baseline(kpv_list[j])))]]

\* a map less a constant
Less(m, x) == [ikp \in 1..NKp |-> [iv \in 1..NV |-> RSub(m[ikp][iv], x)]]

\* C4 as stated: the ccf_map of a merge does not depend on the sequence or the
\* nesting of the maps: merge([a,b]) = merge([b,a]) and
\* merge([merge([a,b]),c]) = merge([a,merge([b,c])]) = merge([a,b,c]).
C4_Original ==
  /\ mergeOp[1] = "pair" => merged = PairSum(mergeOp[3], mergeOp[2])
  /\ mergeOp[1] \in {"flat", "left", "right"} => merged = FlatSum

\* C4 as the code has it: merge is commutative on ccf_map; a nested merge is
\* the flat merge less the baseline of the inner merge, so nested and flat
\* merges agree on ccf_map - baseline, not on ccf_map.
C4_MergeUpToBaseline ==
  /\ mergeOp[1] = "pair" => merged = PairSum(mergeOp[3], mergeOp[2])
  /\ mergeOp[1] = "flat" => merged = FlatSum
  /\ mergeOp[1] = "left" =>
       /\ merged = Less(FlatSum, baseline(PairSum(1, 2)))
       /\ Less(merged, baseline(merged)) = Less(FlatSum, baseline(FlatSum))
  /\ mergeOp[1] = "right" =>
       /\ merged = Less(FlatSum, baseline(PairSum(2, 3)))
       /\ Less(merged, baseline(merged)) = Less(FlatSum, baseline(FlatSum))

\* a nested merge whose inner merge has a baseline other than zero
C4_Witness ==
  /\ mergeOp[1] = "left"
  /\ baseline(PairSum(1, 2)) # Zero
  /\ merged # FlatSum
  /\ \A ikp \in 1..NKp, iv \in 1..NV : IsFinite(merged[ikp][iv])

(***************************************************************************)
(* Claims about the peak searches, the slices, the fits and save           *)
(***************************************************************************)
\* C11: a slice cut with no peak argument goes through the cell the windowed
\* search snr_at_peak(peak=None) selects: for axis = 0 it is the row of the
\* SNR surface at that cell's Kp index, for axis = 1 the column at its Vrest
\* index, also when a larger SNR lies outside the search window.
C11_SliceThroughWindowedPeak ==
  (kpvOp = "slice" /\ Cardinality(PeakCells(SnrClamped(ccf_map))) = 1) =>
    LET cell == CHOOSE x \in PeakCells(SnrClamped(ccf_map)) : TRUE
        ind == IF slice_out[1] = 0 THEN cell[1] ELSE cell[2]
    IN  /\ slice_out[2] = ind
        /\ slice_out[3] = Take(snr(ccf_map), ind, slice_out[1])

\* C12: after a peak search in any of the three modes the stored descriptor is
\* that of this search and is consistent: peak_pos = (vrestVec[indv],
\* kpVec[indh]) and peak_snr = snr[indh, indv].
C12_DescriptorConsistent ==
  kpvOp \in {"peak_none", "peak_float", "peak_tuple"} =>
    /\ peak_pos = <<vrestVec[indv], kpVec[indh]>>
    /\ peak_snr = snr(ccf_map)[indh][indv]

\* C14: a Gaussian fit that does not converge is local: get_slice(fit=True)
\* still returns the slice, with its fit marked as unavailable, and fit_peak
\* still completes with the fit of the other slice.
C14_FitFailureLocal ==
  (fitFailed # {} /\ kpvOp \in {"slice_fit", "slice_fit_raised", "fit_peak",
                                 "fit_peak_fit_raised"}) =>
    \/ /\ kpvOp = "slice_fit"
       /\ slice_out[4] = "nofit"
    \/ /\ kpvOp = "fit_peak"
       /\ Len(fit) = 2
       /\ \A i \in {0, 1} : fit[i + 1] = IF i \in fitFailed THEN "nofit" ELSE "popt"

\* C18: a save that succeeds leaves the mapper itself without planet; from
\* then on the map, hence SNR, noise and baseline, stays the one of before the
\* save, a peak search still succeeds and reads that map, and no run and no
\* further save returns: each raises and leaves ccf_map unchanged.
C18_SaveDropsPlanet ==
  [][/\ kpvOp' = "save" => (has_planet /\ ~has_planet')
     /\ ~has_planet =>
          /\ ~has_planet'
          /\ ccf_map' = ccf_map
          /\ ccf_map' = mapAtSave'
          /\ kpvOp' \notin {"run", "save", "save_io_raised"}
          /\ kpvOp' \in {"peak_none", "peak_float", "peak_tuple"} =>
               peak_snr' = snr(mapAtSave)[indh'][indv']]_vars

\* a run on a saved mapper has raised and the map is still that of the save
C18_Witness ==
  /\ ~has_planet
  /\ kpvOp = "run_raised"
  /\ ccf_map # <<>>
  /\ ccf_map = mapAtSave

\* the largest SNR over the cells inside the search window
MaxInWindow(m) ==
  RMax(Flatten([ikp \in 1..NKp |->
         Select(Select(snr(m)[ikp], mask_dv), [j \in 1..NV |-> mask_kp[ikp]])]))

\* C19: on a map with non-zero background noise the default peak search
\* completes and stores one peak cell, whose SNR is the largest SNR over the
\* cells inside the window, also when several cells attain it.
C19_DefaultSearchCompletes ==
  (/\ kpvOp \in {"peak_none", "peak_none_raised"}
   /\ IsFinite(noise(ccf_map))
   /\ noise(ccf_map) # Zero) =>
    /\ kpvOp = "peak_none"
    /\ indh \in 1..NKp
    /\ indv \in 1..NV
    /\ peak_snr = MaxInWindow(ccf_map)

(***************************************************************************)
(* Claims about Align                                                      *)
(***************************************************************************)
\* C13: after Align.run the shift of the reference frame is zero and the
\* shift of every other frame is the trial shift at the maximum of its
\* correlation with frame 0.
C13_ReferenceShiftZero ==
  alignOp = "run" =>
    /\ shifts[1] = 0
    /\ \A j \in 2..NObsA : shifts[j] = RVt[ArgMax(align_ccf[j])]

\* the frame pairs of the run that have fewer than 4 valid points
Degenerate(j) ==
  Cardinality({p \in 1..NPixA : ValidPair(dco_flux[1], dco_flux[j])[p]}) < 4

\* C15: a frame pair with fewer than 4 valid points makes get_shift signal a
\* DegenerateInputError before interpolation or correlation is attempted, and
\* neither the frame's ccf row nor a shift is written.
C15_DegenerateSignalled ==
  (alignOp \notin {"init", "run_called"} /\ \E j \in 1..NObsA : Degenerate(j)) =>
    \/ /\ alignPc \in 2..NObsA
       /\ \A j \in 1..(alignPc - 1) : ~Degenerate(j)
    \/ /\ alignOp = "raised_DegenerateInputError"
       /\ shifts = [i \in 1..NObsA |-> 0]
       /\ \A j \in 1..NObsA :
            Degenerate(j) => align_ccf[j] = [k \in DOMAIN RVt |-> Zero]

====
